---- MODULE Spec2Model ----
(***************************************************************************)
(* Model of the `relevant` crate (src/src/lib.rs): the zero-sized type     *)
(* `Relevant`, its `dispose` method, its `Drop` implementation and the     *)
(* three cfg-selected variants of `whine`.                                 *)
(*                                                                         *)
(* A marker value is tracked from construction until it is consumed by     *)
(* `dispose` (mem::forget, no destructor) or until it ceases to exist and  *)
(* its destructor runs.  Each thread has its own unwinding flag, the value *)
(* `std::thread::panicking()` returns on that thread.  A panic raised on a *)
(* thread that is already unwinding aborts the process.                    *)
(***************************************************************************)
EXTENDS Integers, Sequences, FiniteSets, TLC

MaxMarkers == 2
NumThreads == 2
MaxFields  == 2

Markers == 1..MaxMarkers
Threads == 1..NumThreads

\* The message of both panic! and log::error! (lib.rs lines 52, 57, 62).
Message == "Values of this type can't be dropped!"

\* Cargo features that select the code compiled in.
AllFeatures == {"std", "log", "serde-1"}

VARIABLES
    features,    \* the enabled cargo features, fixed for a whole run
    panicking,   \* panicking[t]: thread t is unwinding
    aborted,     \* the process was aborted by a panic during unwinding
    logs,        \* the records emitted through log::error!
    panics,      \* the panics raised, in order
    mstate,      \* mstate[m]: "none", "pending", "disposed" or "dropped"
    host,        \* host[m]: 0 for a bare marker, else the aggregate holding m
    origin,      \* origin[m]: how the value came to exist
    fired,       \* fired[m]: how many times whine ran for m
    disposals,   \* disposals[m]: how many times dispose consumed m
    last         \* what the last operation did

vars == <<features, panicking, aborted, logs, panics, mstate, host, origin,
          fired, disposals, last>>

----------------------------------------------------------------------------
(* The execution context an operation runs in and changes.                 *)

Ctx(t) ==
    [thread |-> t, panicking |-> panicking, aborted |-> aborted,
     logs |-> logs, panics |-> panics, whines |-> 0, raisedAt |-> <<>>]

\* panic!(msg) on thread c.thread: starts unwinding, or aborts the process
\* when the thread is unwinding already.  raisedAt notes which handler call
\* of the running operation raised.
Panic(c, msg) ==
    IF c.panicking[c.thread]
    THEN [c EXCEPT !.panics = Append(@, msg), !.aborted = TRUE,
                   !.raisedAt = Append(@, c.whines)]
    ELSE [c EXCEPT !.panics = Append(@, msg), !.panicking[c.thread] = TRUE,
                   !.raisedAt = Append(@, c.whines)]

\* log::error!(msg)
LogError(c, msg) ==
    [c EXCEPT !.logs = Append(@, [level |-> "error", msg |-> msg])]

ThreadPanickingGlobal(c) == \E u \in Threads : c.panicking[u]

\* std::thread::panicking(): the flag of the calling thread.
ThreadPanicking(c) == c.panicking[c.thread]

whine_log_warn(c) ==
    [c EXCEPT !.logs = Append(@, [level |-> "warn", msg |-> Message])]

\* cfg(feature = "log")
whine_log(c) == LogError(c, Message)

whine_std_inverted(c) ==
    IF ThreadPanicking(c) THEN Panic(c, Message) ELSE c

whine_std_always(c) == Panic(c, Message)

\* cfg(feature = "std"), without log

whine_std(c) ==
    IF ~ThreadPanicking(c) THEN Panic(c, Message) ELSE c

whine_nostd_checked(c) ==
    IF ~ThreadPanicking(c) THEN Panic(c, Message) ELSE c

\* neither log nor std
whine_nostd(c) == Panic(c, Message)

whine_std_first(c) ==
    LET d == [c EXCEPT !.whines = @ + 1] IN
    IF "std" \in features THEN whine_std(d)
    ELSE IF "log" \in features THEN whine_log(d)
    ELSE whine_nostd(d)

\* cfg_if: log first, then std, then neither.
whine(c) ==
    LET d == [c EXCEPT !.whines = @ + 1] IN
    IF "log" \in features THEN whine_log(d)
    ELSE IF "std" \in features THEN whine_std(d)
    ELSE whine_nostd(d)

\* impl Drop for Relevant
drop(c) == whine(c)

\* std::mem::forget: the value is consumed and no destructor runs.
forget(c) == c

dispose_dropping(c) == drop(c)

\* Relevant::dispose(self)
dispose(c) == forget(c)

\* Drop glue of an aggregate: its fields are dropped in declaration order;
\* when one destructor panics the remaining fields are dropped during the
\* unwind, and an abort ends everything.
RECURSIVE DropFields(_, _)
DropFields(c, fs) ==
    IF fs = <<>> \/ c.aborted THEN c
    ELSE DropFields(drop(c), Tail(fs))

RECURSIVE DisposeFields(_, _)
DisposeFields(c, fs) ==
    IF fs = <<>> THEN c
    ELSE DisposeFields(dispose(c), Tail(fs))

----------------------------------------------------------------------------
(* Serialization (derive(Serialize, Deserialize) on a unit struct).        *)

UnitForm == [kind |-> "unit_struct", name |-> "Relevant", len |-> 0]
OtherForm == [kind |-> "struct", name |-> "Relevant", len |-> 1]
Forms == {UnitForm, OtherForm}

\* Serialize::serialize(&self): serialize_unit_struct("Relevant")
Serialize(s) == [kind |-> "unit_struct", name |-> "Relevant", len |-> 0]

DeserializeDisposed(f) ==
    IF f.kind = "unit_struct" /\ f.name = "Relevant"
    THEN [ok |-> TRUE, value |-> "disposed"]
    ELSE [ok |-> FALSE, value |-> "none"]

\* Deserialize::deserialize: visit_unit yields Ok(Relevant), a live value.
Deserialize(f) ==
    IF f.kind = "unit_struct" /\ f.name = "Relevant"
    THEN [ok |-> TRUE, value |-> "pending"]
    ELSE [ok |-> FALSE, value |-> "none"]

----------------------------------------------------------------------------
(* Comparison and hashing (derive(PartialOrd, PartialEq, Ord, Eq, Hash)).  *)

FieldsWithId(m) == <<m>>

\* pub struct Relevant; a unit struct: the value of a marker has no fields.
Fields(m) == <<>>

\* derive(PartialEq, Eq): equal when every field is equal.
derive_eq(a, b) == \A i \in 1..Len(a) : a[i] = b[i]

\* derive(PartialOrd, Ord): lexicographic over the fields.
RECURSIVE derive_cmp(_, _)
derive_cmp(a, b) ==
    IF a = <<>> THEN "Equal"
    ELSE IF Head(a) < Head(b) THEN "Less"
    ELSE IF Head(a) > Head(b) THEN "Greater"
    ELSE derive_cmp(Tail(a), Tail(b))

\* derive(Hash): every field is fed to the hasher in order; the result is a
\* function of what was fed.
derive_hash(a) == [i \in 1..Len(a) |-> a[i]]

----------------------------------------------------------------------------
(* Helpers on the marker table.                                            *)

Used == {m \in Markers : mstate[m] # "none"}
Free == Markers \ Used
NextId == Cardinality(Used) + 1

FieldsOf(h) == {m \in Markers : host[m] = h}

RECURSIVE SetToSeq(_)
SetToSeq(S) ==
    IF S = {} THEN <<>>
    ELSE LET x == CHOOSE y \in S : \A z \in S : y <= z
         IN <<x>> \o SetToSeq(S \ {x})

LiveHosts ==
    {h \in Markers : FieldsOf(h) # {} /\ \A m \in FieldsOf(h) : mstate[m] = "pending"}

Quiet(op, ms) ==
    [op |-> op, thread |-> 0, markers |-> ms, wasPanicking |-> FALSE,
     raised |-> 0, logged |-> 0, whines |-> 0, raisedAt |-> <<>>,
     cmp |-> "none"]

Outcome(op, t, ms, c) ==
    [op |-> op, thread |-> IF c.whines > 0 THEN t ELSE 0,
     markers |-> ms, wasPanicking |-> panicking[t],
     raised |-> Len(c.panics) - Len(panics),
     logged |-> Len(c.logs) - Len(logs),
     whines |-> c.whines, raisedAt |-> c.raisedAt, cmp |-> "none"]

Apply(c) ==
    /\ panicking' = c.panicking
    /\ aborted' = c.aborted
    /\ logs' = c.logs
    /\ panics' = c.panics

----------------------------------------------------------------------------
Init ==
    /\ features \in SUBSET AllFeatures
    /\ panicking = [t \in Threads |-> FALSE]
    /\ aborted = FALSE
    /\ logs = <<>>
    /\ panics = <<>>
    /\ mstate = [m \in Markers |-> "none"]
    /\ host = [m \in Markers |-> 0]
    /\ origin = [m \in Markers |-> "none"]
    /\ fired = [m \in Markers |-> 0]
    /\ disposals = [m \in Markers |-> 0]
    /\ last = Quiet("other", {})

\* `Relevant` written as an expression: a new bare value.
New ==
    /\ ~aborted
    /\ Free # {}
    /\ LET m == NextId IN
         /\ mstate' = [mstate EXCEPT ![m] = "pending"]
         /\ origin' = [origin EXCEPT ![m] = "new"]
         /\ last' = Quiet("other", {})
    /\ UNCHANGED <<features, panicking, aborted, logs, panics, host, fired,
                   disposals>>

\* An aggregate with k fields of type Relevant is constructed.
NewHost(k) ==
    /\ ~aborted
    /\ Cardinality(Free) >= k
    /\ LET h == NextId
           ms == h..(h + k - 1) IN
         /\ mstate' = [m \in Markers |-> IF m \in ms THEN "pending" ELSE mstate[m]]
         /\ origin' = [m \in Markers |-> IF m \in ms THEN "new" ELSE origin[m]]
         /\ host' = [m \in Markers |-> IF m \in ms THEN h ELSE host[m]]
         /\ last' = Quiet("other", {})
    /\ UNCHANGED <<features, panicking, aborted, logs, panics, fired,
                   disposals>>

CloneForgotten(m) ==
    /\ ~aborted
    /\ mstate[m] = "pending"
    /\ Free # {}
    /\ LET n == NextId IN
         /\ mstate' = [mstate EXCEPT ![n] = "disposed"]
         /\ origin' = [origin EXCEPT ![n] = "clone"]
         /\ last' = Quiet("clone", {n})
    /\ UNCHANGED <<features, panicking, aborted, logs, panics, host, fired,
                   disposals>>

\* derive(Clone): clone(&self) returns a new value, the original stays.
Clone(m) ==
    /\ ~aborted
    /\ mstate[m] = "pending"
    /\ Free # {}
    /\ LET n == NextId IN
         /\ mstate' = [mstate EXCEPT ![n] = "pending"]
         /\ origin' = [origin EXCEPT ![n] = "clone"]
         /\ last' = Quiet("clone", {n})
    /\ UNCHANGED <<features, panicking, aborted, logs, panics, host, fired,
                   disposals>>

\* Two live markers are compared and hashed through shared references.
Compare(m, n) ==
    /\ ~aborted
    /\ m < n
    /\ mstate[m] = "pending" /\ mstate[n] = "pending"
    /\ LET a == Fields(m)
           b == Fields(n) IN
         last' = [Quiet("compare", {m, n}) EXCEPT
                    !.cmp = [eq |-> derive_eq(a, b) /\ derive_eq(b, a),
                             ord |-> derive_cmp(a, b),
                             rev |-> derive_cmp(b, a),
                             hashEq |-> derive_hash(a) = derive_hash(b)]]
    /\ UNCHANGED <<features, panicking, aborted, logs, panics, mstate, host,
                   origin, fired, disposals>>

\* m.dispose() on a bare marker.
Dispose(t, m) ==
    /\ ~aborted
    /\ mstate[m] = "pending"
    /\ host[m] = 0
    /\ LET c == dispose(Ctx(t)) IN
         /\ Apply(c)
         /\ mstate' = [mstate EXCEPT ![m] = "disposed"]
         /\ disposals' = [disposals EXCEPT ![m] = @ + 1]
         /\ fired' = [fired EXCEPT ![m] = @ + c.whines]
         /\ last' = Outcome("dispose", t, {m}, c)
    /\ UNCHANGED <<features, host, origin>>

\* A bare marker goes out of scope on thread t.
Drop(t, m) ==
    /\ ~aborted
    /\ mstate[m] = "pending"
    /\ host[m] = 0
    /\ LET c == drop(Ctx(t)) IN
         /\ Apply(c)
         /\ mstate' = [mstate EXCEPT ![m] = "dropped"]
         /\ fired' = [fired EXCEPT ![m] = @ + c.whines]
         /\ last' = Outcome("drop", t, {m}, c)
    /\ UNCHANGED <<features, host, origin, disposals>>

\* The aggregate is deconstructed and every field is disposed.
HostDispose(t, h) ==
    /\ ~aborted
    /\ h \in LiveHosts
    /\ LET ms == FieldsOf(h)
           c == DisposeFields(Ctx(t), SetToSeq(ms)) IN
         /\ Apply(c)
         /\ mstate' = [m \in Markers |-> IF m \in ms THEN "disposed" ELSE mstate[m]]
         /\ disposals' = [m \in Markers |-> IF m \in ms THEN disposals[m] + 1
                                           ELSE disposals[m]]
         /\ fired' = [m \in Markers |->
                        IF m \in ms /\ m - h < c.whines THEN fired[m] + 1 ELSE fired[m]]
         /\ last' = Outcome("host_dispose", t, ms, c)
    /\ UNCHANGED <<features, host, origin>>

\* The aggregate goes out of scope on thread t: its drop glue runs.
HostDrop(t, h) ==
    /\ ~aborted
    /\ h \in LiveHosts
    /\ LET ms == FieldsOf(h)
           c == DropFields(Ctx(t), SetToSeq(ms)) IN
         /\ Apply(c)
         /\ mstate' = [m \in Markers |->
                        IF m \in ms /\ m - h < c.whines THEN "dropped" ELSE mstate[m]]
         /\ fired' = [m \in Markers |->
                        IF m \in ms /\ m - h < c.whines THEN fired[m] + 1 ELSE fired[m]]
         /\ last' = Outcome("host_drop", t, ms, c)
    /\ UNCHANGED <<features, host, origin, disposals>>

\* serde: m.serialize(..) through a shared reference, then
\* Relevant::deserialize(..) of what was written.
RoundTrip(m) ==
    /\ ~aborted
    /\ "serde-1" \in features
    /\ mstate[m] = "pending"
    /\ Free # {}
    /\ LET r == Deserialize(Serialize(mstate[m]))
           n == NextId IN
         IF r.ok
         THEN /\ mstate' = [mstate EXCEPT ![n] = r.value]
              /\ origin' = [origin EXCEPT ![n] = "deserialize"]
              /\ last' = Quiet("round_trip", {n})
         ELSE /\ UNCHANGED <<mstate, origin>>
              /\ last' = Quiet("round_trip_err", {})
    /\ UNCHANGED <<features, panicking, aborted, logs, panics, host, fired,
                   disposals>>

\* serde: Relevant::deserialize(..) of an arbitrary form f.
DeserializeOp(f) ==
    /\ ~aborted
    /\ "serde-1" \in features
    /\ Free # {}
    /\ LET r == Deserialize(f)
           n == NextId IN
         IF r.ok
         THEN /\ mstate' = [mstate EXCEPT ![n] = r.value]
              /\ origin' = [origin EXCEPT ![n] = "deserialize"]
              /\ last' = Quiet("other", {})
         ELSE /\ UNCHANGED <<mstate, origin>>
              /\ last' = Quiet("deserialize_err", {})
    /\ UNCHANGED <<features, panicking, aborted, logs, panics, host, fired,
                   disposals>>

\* Some other code on thread t panics: the thread starts to unwind.
BeginUnwind(t) ==
    /\ ~aborted
    /\ ~panicking[t]
    /\ panicking' = [panicking EXCEPT ![t] = TRUE]
    /\ last' = Quiet("other", {})
    /\ UNCHANGED <<features, aborted, logs, panics, mstate, host, origin,
                   fired, disposals>>

\* The unwind of thread t is caught (catch_unwind): it runs normally again.
EndUnwind(t) ==
    /\ ~aborted
    /\ panicking[t]
    /\ panicking' = [panicking EXCEPT ![t] = FALSE]
    /\ last' = Quiet("other", {})
    /\ UNCHANGED <<features, aborted, logs, panics, mstate, host, origin,
                   fired, disposals>>

Next ==
    \/ New
    \/ \E k \in 1..MaxFields : NewHost(k)
    \/ \E m \in Markers : Clone(m)
    \/ \E m, n \in Markers : Compare(m, n)
    \/ \E t \in Threads, m \in Markers : Dispose(t, m)
    \/ \E t \in Threads, m \in Markers : Drop(t, m)
    \/ \E t \in Threads, h \in Markers : HostDispose(t, h)
    \/ \E t \in Threads, h \in Markers : HostDrop(t, h)
    \/ \E m \in Markers : RoundTrip(m)
    \/ \E f \in Forms : DeserializeOp(f)
    \/ \E t \in Threads : BeginUnwind(t)
    \/ \E t \in Threads : EndUnwind(t)

Spec == Init /\ [][Next]_vars

----------------------------------------------------------------------------
(* The build modes and the documented outcome of dropping a pending marker *)

FatalMode      == "log" \notin features /\ "std" \in features
DiagnosticMode == "log" \in features
MinimalMode    == "log" \notin features /\ "std" \notin features

ErrorRecord == [level |-> "error", msg |-> Message]

LastPanic == panics[Len(panics)]
LastLog   == logs[Len(logs)]

\* lib.rs "# Panics": panics when dropped unless log is enabled, or std is
\* enabled and the thread is already panicking.
DocPanics == "log" \notin features /\ ~("std" \in features /\ last.wasPanicking)

----------------------------------------------------------------------------
\* C1: in every build mode and whether or not the calling thread is
\* unwinding, dispose of a pending marker raises nothing, logs nothing and
\* runs no handler; its only effect is that the marker becomes disposed.
C1_DisposeSilent ==
    [][last'.op = "dispose" =>
         /\ logs' = logs /\ panics' = panics
         /\ panicking' = panicking /\ aborted' = aborted
         /\ fired' = fired
         /\ last'.raised = 0 /\ last'.logged = 0 /\ last'.whines = 0
         /\ \A m \in Markers :
              IF m \in last'.markers
              THEN mstate[m] = "pending" /\ mstate'[m] = "disposed"
              ELSE mstate'[m] = mstate[m]]_vars

C1_Witness ==
    /\ last.op = "dispose" /\ last.wasPanicking
    /\ MinimalMode
    /\ \A m \in last.markers : mstate[m] = "disposed"

\* C2: in fatal mode a pending marker dropped on a thread that is not
\* unwinding raises the panic with the exact message.
C2_FatalRaises ==
    (FatalMode /\ last.op = "drop" /\ ~last.wasPanicking) =>
        /\ last.raised = 1 /\ last.logged = 0
        /\ LastPanic = "Values of this type can't be dropped!"
        /\ panicking[last.thread]

C2_Witness ==
    FatalMode /\ last.op = "drop" /\ ~last.wasPanicking /\ last.raised = 1

\* C3: in fatal mode a pending marker dropped on a thread that is already
\* unwinding raises no new panic and logs nothing; the thread keeps
\* unwinding and the process is not aborted.
C3_FatalSuppressed ==
    (FatalMode /\ last.op = "drop" /\ last.wasPanicking) =>
        /\ last.raised = 0 /\ last.logged = 0
        /\ panicking[last.thread] /\ ~aborted

C3_Witness ==
    /\ FatalMode /\ last.op = "drop" /\ last.wasPanicking
    /\ last.whines = 1 /\ last.raised = 0

\* C4: in diagnostic mode every pending marker dropped without disposal
\* produces exactly one error-level record with the fixed message, raises
\* nothing, and the thread goes on as before.
C4_DiagnosticLogs ==
    (DiagnosticMode /\ last.op \in {"drop", "host_drop"}) =>
        /\ last.logged = Cardinality(last.markers)
        /\ \A m \in last.markers : fired[m] = 1
        /\ \A i \in (Len(logs) - last.logged + 1)..Len(logs) : logs[i] = ErrorRecord
        /\ last.raised = 0 /\ ~aborted
        /\ panicking[last.thread] = last.wasPanicking

C4_Witness ==
    DiagnosticMode /\ last.op = "drop" /\ last.logged = 1 /\ LastLog = ErrorRecord

\* C5: in minimal mode dropping a pending marker always raises the panic,
\* also when the thread is already unwinding.
C5_MinimalAlwaysRaises ==
    (MinimalMode /\ last.op = "drop") =>
        /\ last.raised = 1 /\ last.logged = 0
        /\ LastPanic = Message

C5_Witness ==
    MinimalMode /\ last.op = "drop" /\ last.wasPanicking /\ last.raised = 1

\* C6: over all feature combinations and unwinding states, dropping a
\* pending marker panics iff log is disabled and not (std enabled and the
\* thread already panicking); with log and std both enabled it never panics.
C6_PanicsIff ==
    last.op = "drop" =>
        /\ last.raised \in {0, 1}
        /\ (last.raised = 1) <=>
             ("log" \notin features /\ ~("std" \in features /\ last.wasPanicking))
        /\ ({"log", "std"} \subseteq features => last.raised = 0)

C6_Witness ==
    /\ last.op = "drop" /\ {"log", "std"} \subseteq features
    /\ ~last.wasPanicking /\ last.raised = 0

\* C7: a marker starts pending; the only state transition is pending to
\* disposed, taken only by dispose; the handler fires at most once per
\* marker, only when a pending marker ceases to exist, never for a disposed
\* marker; once the handler has fired the marker is never disposed.
C7_States ==
    \A m \in Markers :
        /\ mstate[m] \in {"none", "pending", "disposed", "dropped"}
        /\ fired[m] <= 1 /\ disposals[m] <= 1
        /\ (fired[m] = 1 => mstate[m] = "dropped" /\ disposals[m] = 0)
        /\ (mstate[m] = "disposed" => fired[m] = 0 /\ disposals[m] = 1)
        /\ (mstate[m] = "pending" => fired[m] = 0 /\ disposals[m] = 0)

C7_Step ==
    \A m \in Markers :
        /\ (mstate'[m] # mstate[m] =>
              \/ mstate[m] = "none" /\ mstate'[m] = "pending"
              \/ /\ mstate[m] = "pending" /\ mstate'[m] = "disposed"
                 /\ last'.op \in {"dispose", "host_dispose"}
                 /\ m \in last'.markers
                 /\ disposals'[m] = disposals[m] + 1
              \/ /\ mstate[m] = "pending" /\ mstate'[m] = "dropped"
                 /\ last'.op \in {"drop", "host_drop"}
                 /\ m \in last'.markers
                 /\ fired'[m] = fired[m] + 1)
        /\ (fired'[m] # fired[m] => mstate[m] = "pending" /\ mstate'[m] = "dropped")
        /\ (disposals'[m] # disposals[m] =>
              mstate[m] = "pending" /\ mstate'[m] = "disposed")

C7_Lifecycle == []C7_States /\ [][C7_Step]_vars

C7_Witness ==
    \E m, n \in Markers :
        /\ mstate[m] = "disposed" /\ fired[m] = 0
        /\ mstate[n] = "dropped" /\ fired[n] = 1 /\ disposals[n] = 0

\* C8: disposing an aggregate through its explicit path disposes each
\* embedded marker exactly once and runs no handler; implicitly dropping
\* the aggregate gives, in each mode and unwinding state, the outcome that
\* dropping a bare pending marker gives.
C8_Host ==
    /\ last.op = "host_dispose" =>
         /\ last.whines = 0 /\ last.raised = 0 /\ last.logged = 0
         /\ \A m \in last.markers :
              mstate[m] = "disposed" /\ disposals[m] = 1 /\ fired[m] = 0
    /\ last.op = "host_drop" =>
         /\ last.whines >= 1
         /\ \A m \in last.markers : fired[m] = 1 \/ aborted
         /\ (last.raised >= 1) <=> DocPanics
         /\ last.logged = IF DiagnosticMode THEN Cardinality(last.markers) ELSE 0
         /\ (Cardinality(last.markers) = 1 =>
               /\ last.whines = 1
               /\ last.raised = IF DocPanics THEN 1 ELSE 0
               /\ aborted = (DocPanics /\ last.wasPanicking)
               /\ panicking[last.thread] = (last.wasPanicking \/ DocPanics))

C8_Witness ==
    /\ last.op = "host_drop" /\ Cardinality(last.markers) = 1
    /\ FatalMode /\ ~last.wasPanicking /\ last.raised = 1
    /\ \E m \in Markers : mstate[m] = "disposed" /\ host[m] # 0

\* C9: in fatal mode the already-unwinding check is per thread: a drop on
\* a thread that is not unwinding raises even while another thread unwinds,
\* a drop on an unwinding thread is suppressed even while no other thread
\* unwinds, and a drop never changes another thread's unwinding state.
C9_OtherUnwinding(t) == \E u \in Threads \ {t} : panicking[u]

C9_Inv ==
    (FatalMode /\ last.op = "drop") =>
        /\ (~last.wasPanicking /\ C9_OtherUnwinding(last.thread)) => last.raised = 1
        /\ (last.wasPanicking /\ ~C9_OtherUnwinding(last.thread)) => last.raised = 0

C9_Step ==
    last'.op \in {"drop", "host_drop"} =>
        \A u \in Threads \ {last'.thread} : panicking'[u] = panicking[u]

C9_PerThread == []C9_Inv /\ [][C9_Step]_vars

C9_Witness ==
    /\ FatalMode /\ last.op = "drop" /\ ~last.wasPanicking
    /\ C9_OtherUnwinding(last.thread)
    /\ last.raised = 1

\* C10: with serde enabled, serializing a marker and deserializing the
\* result always succeeds and yields a pending marker, and dropping that
\* marker without dispose runs the handler with the outcome a freshly
\* constructed marker gets.
C10_RoundTrip ==
    /\ last.op # "round_trip_err"
    /\ last.op = "round_trip" =>
         \A n \in last.markers :
            mstate[n] = "pending" /\ fired[n] = 0 /\ disposals[n] = 0
    /\ \A m \in Markers :
         (origin[m] = "deserialize" /\ last.op = "drop" /\ m \in last.markers) =>
            /\ last.whines = 1 /\ fired[m] = 1
            /\ last.raised = IF DocPanics THEN 1 ELSE 0
            /\ last.logged = IF DiagnosticMode THEN 1 ELSE 0

C10_Witness ==
    \E m \in Markers :
        /\ origin[m] = "deserialize" /\ last.op = "drop" /\ m \in last.markers
        /\ last.raised = 1

\* C11: any two marker instances, whatever their history of construction
\* or cloning, compare equal, order as equal in both directions, and hash
\* identically.
C11_AllEqual ==
    last.op = "compare" =>
        /\ last.cmp.eq
        /\ last.cmp.ord = "Equal" /\ last.cmp.rev = "Equal"
        /\ last.cmp.hashEq

C11_Witness ==
    /\ last.op = "compare" /\ last.cmp.eq /\ last.cmp.ord = "Equal"
    /\ \E m, n \in last.markers : origin[m] = "new" /\ origin[n] = "clone"

\* C12: diagnostic mode takes precedence over fatal mode and never looks at
\* the unwinding state: with log enabled, with or without std, a pending
\* marker dropped on a thread that is already unwinding still emits exactly
\* one error-level record and raises nothing.
C12_LogPrecedence ==
    ("log" \in features /\ last.op = "drop" /\ last.wasPanicking) =>
        /\ last.whines = 1
        /\ last.logged = 1 /\ LastLog = ErrorRecord
        /\ last.raised = 0
        /\ panicking[last.thread] /\ ~aborted

C12_Witness ==
    /\ {"log", "std"} \subseteq features
    /\ last.op = "drop" /\ last.wasPanicking
    /\ last.logged = 1 /\ last.raised = 0

\* C13: cloning a pending marker creates a second pending marker and leaves
\* the original pending; disposing or dropping one marker leaves every other
\* marker as it was; every dropped marker fires its own handler; and the
\* number of pending markers equals constructions plus clones minus
\* disposals minus handler firings.
RECURSIVE C13_Sum(_, _)
C13_Sum(f, S) ==
    IF S = {} THEN 0
    ELSE LET x == CHOOSE y \in S : TRUE IN f[x] + C13_Sum(f, S \ {x})

C13_Count ==
    Cardinality({m \in Markers : mstate[m] = "pending"}) =
        Cardinality({m \in Markers : origin[m] \in {"new", "deserialize"}})
        + Cardinality({m \in Markers : origin[m] = "clone"})
        - C13_Sum(disposals, Markers) - C13_Sum(fired, Markers)

C13_Step ==
    /\ last'.op = "clone" =>
          /\ \E n \in Markers :
                /\ last'.markers = {n}
                /\ mstate[n] = "none" /\ mstate'[n] = "pending"
                /\ origin'[n] = "clone"
                /\ \E m \in Markers \ {n} : mstate[m] = "pending"
                /\ \A m \in Markers \ {n} : mstate'[m] = mstate[m]
          /\ fired' = fired /\ disposals' = disposals
          /\ logs' = logs /\ panics' = panics
    /\ last'.op \in {"dispose", "drop"} =>
          \A n \in Markers \ last'.markers :
             /\ mstate'[n] = mstate[n]
             /\ fired'[n] = fired[n] /\ disposals'[n] = disposals[n]
    /\ last'.op = "drop" =>
          \A m \in last'.markers :
             mstate[m] = "pending" /\ fired'[m] = fired[m] + 1

C13_CloneIndependent == []C13_Count /\ [][C13_Step]_vars

C13_Witness ==
    \E m, n \in Markers :
        /\ origin[m] = "new" /\ mstate[m] = "disposed" /\ fired[m] = 0
        /\ origin[n] = "clone" /\ mstate[n] = "dropped" /\ fired[n] = 1
        /\ last.op = "drop" /\ last.markers = {n}

\* C14: in fatal mode, when an aggregate with several pending markers is
\* implicitly dropped on a thread that was not unwinding, every marker's
\* handler runs and exactly one panic is raised, by the first marker's
\* handler, which puts the thread into the unwinding state; the handlers of
\* the markers dropped after it are suppressed.  In diagnostic mode the same
\* event yields one error record per marker and no panic.
C14_Several == last.op = "host_drop" /\ Cardinality(last.markers) >= 2

C14_OnePanic ==
    /\ (C14_Several /\ FatalMode /\ ~last.wasPanicking) =>
          /\ last.whines = Cardinality(last.markers)
          /\ \A m \in last.markers : mstate[m] = "dropped" /\ fired[m] = 1
          /\ last.raised = 1 /\ last.raisedAt = <<1>>
          /\ LastPanic = Message
          /\ last.logged = 0
          /\ panicking[last.thread] /\ ~aborted
    /\ (C14_Several /\ DiagnosticMode) =>
          /\ last.whines = Cardinality(last.markers)
          /\ \A m \in last.markers : mstate[m] = "dropped" /\ fired[m] = 1
          /\ last.logged = Cardinality(last.markers)
          /\ \A i \in (Len(logs) - last.logged + 1)..Len(logs) : logs[i] = ErrorRecord
          /\ last.raised = 0 /\ last.raisedAt = <<>>
          /\ panicking[last.thread] = last.wasPanicking /\ ~aborted

C14_Witness ==
    /\ C14_Several /\ FatalMode /\ ~last.wasPanicking
    /\ last.whines >= 2 /\ last.raised = 1

====
